---- MODULE Spec2Model ----
(***************************************************************************)
(* Model of src/lib/nlpService.ts (parseNaturalLanguageQuery,              *)
(* searchFlights, getCityName, generateChatbotResponse) over the flight    *)
(* data of src/lib/mockData.ts, of the apiService facade, and of the       *)
(* components that call it: the chatbot, the booking page, the alerts page *)
(* and the Dashboard.                                                      *)
(*                                                                         *)
(* Strings are TLA+ strings, i.e. sequences of characters: Len, SubSeq and *)
(* \o are the sequence operators.  Regular expressions are modelled by     *)
(* what the ECMAScript backtracking matcher does: leftmost start position, *)
(* greedy quantifiers tried from the longest, lazy ones from the shortest. *)
(* The only whitespace character of the model's alphabet is the space.     *)
(***************************************************************************)
EXTENDS Integers, Sequences, FiniteSets, TLC

VARIABLES
  \* src/lib/nlpService.ts and its callers
  mockFlights, query, parsed, results, pc, message, response, callLog,
  \* a call of an apiService method
  apiCall,
  \* src/components/chatbot.tsx
  messages, input, isLoading, chatRequests, now,
  \* src/app/booking/page.tsx
  bookingQuery, bookingResults, isSearching, hasSearched, searchRequests,
  searchTimers,
  \* src/app/alerts/page.tsx
  alerts, searchTerm, filterType, showResolved,
  \* src/app/page.tsx
  activeFlights, criticalAlerts, avgRunwayUtilization, recentFlights,
  flightStats, runwayMetrics, loading, dashboardRequests,
  \* src/app/schedule-optimization/page.tsx
  scheduleAirportCode, summary, scheduleLoading, error, scheduleFlightNumber,
  newDepartureTime, optimizationResult, scheduleRequests,
  \* src/app/analytics/page.tsx
  analyticsLoading, analyticsMetrics, analyticsStats, runwayAnalytics,
  analyticsAlerts, analyticsRequests

\* the module-level data and the last call of each function of nlpService.ts
coreVars == <<mockFlights, query, parsed, results, pc, message, response, callLog>>

apiVars == <<apiCall>>

chatVars == <<messages, input, isLoading, chatRequests, now>>

bookingVars ==
  <<bookingQuery, bookingResults, isSearching, hasSearched, searchRequests,
    searchTimers>>

alertVars == <<alerts, searchTerm, filterType, showResolved>>

dashboardVars ==
  <<activeFlights, criticalAlerts, avgRunwayUtilization, recentFlights,
    flightStats, runwayMetrics, loading, dashboardRequests>>

scheduleVars ==
  <<scheduleAirportCode, summary, scheduleLoading, error, scheduleFlightNumber,
    newDepartureTime, optimizationResult, scheduleRequests>>

analyticsVars ==
  <<analyticsLoading, analyticsMetrics, analyticsStats, runwayAnalytics,
    analyticsAlerts, analyticsRequests>>

\* the React components and the facade call: what a call of nlpService.ts
\* leaves alone
pageVars ==
  <<apiVars, chatVars, bookingVars, alertVars, dashboardVars, scheduleVars,
    analyticsVars>>

vars == <<coreVars, pageVars>>

----------------------------------------------------------------------------
(* Characters and the String.prototype methods the code uses.              *)

LowerChars == "abcdefghijklmnopqrstuvwxyz"
UpperChars == "ABCDEFGHIJKLMNOPQRSTUVWXYZ"
DigitChars == "0123456789"

CharAt(s, i) == SubSeq(s, i, i)

\* 1-based index of character c in alphabet, 0 when it is not there
IndexIn(c, alphabet) ==
  IF \E i \in 1..Len(alphabet) : CharAt(alphabet, i) = c
  THEN CHOOSE i \in 1..Len(alphabet) : CharAt(alphabet, i) = c
  ELSE 0

Min(S) == CHOOSE x \in S : \A y \in S : x <= y
Max(S) == CHOOSE x \in S : \A y \in S : x >= y

CharSet(alphabet) == {CharAt(alphabet, i) : i \in 1..Len(alphabet)}
LowerSet == CharSet(LowerChars)
UpperSet == CharSet(UpperChars)
DigitSet == CharSet(DigitChars)

\* the lower-case letter of each upper-case letter
LowerOf == [c \in UpperSet |-> CharAt(LowerChars, IndexIn(c, UpperChars))]

toLowerCaseIdentity(c) == c

toLowerCaseChar(c) == IF c \in UpperSet THEN LowerOf[c] ELSE c

RECURSIVE toLowerCase(_)
toLowerCase(s) ==
  IF Len(s) = 0 THEN ""
  ELSE toLowerCaseChar(CharAt(s, 1)) \o toLowerCase(SubSeq(s, 2, Len(s)))

\* regex \s
isSpace(c) == c = " "
\* regex \d
isDigit(c) == c \in DigitSet
\* regex class [a-z\s]
isLetterOrSpace(c) == c \in LowerSet \/ isSpace(c)

\* the literal lit occurs in s at (1-based) position p
StartsAt(s, p, lit) ==
  /\ p >= 1
  /\ p + Len(lit) - 1 <= Len(s)
  /\ SubSeq(s, p, p + Len(lit) - 1) = lit

\* String.prototype.includes
includes(s, sub) == \E p \in 1..(Len(s) + 1) : StartsAt(s, p, sub)

\* String.prototype.trim
trim(s) ==
  LET keep == {i \in 1..Len(s) : ~isSpace(CharAt(s, i))}
  IN IF keep = {} THEN "" ELSE SubSeq(s, Min(keep), Max(keep))

\* String.prototype.split(' '): the pieces between single spaces
RECURSIVE split(_)
split(s) ==
  LET sp == {i \in 1..Len(s) : isSpace(CharAt(s, i))}
  IN IF sp = {} THEN <<s>>
     ELSE <<SubSeq(s, 1, Min(sp) - 1)>> \o split(SubSeq(s, Min(sp) + 1, Len(s)))

----------------------------------------------------------------------------
(* String.prototype.match for the five patterns of                         *)
(* parseNaturalLanguageQuery.  A match is <<whole, group 1>> (or <<whole>> *)
(* for the patterns without a group); no match (null) is <<>>.             *)

\* number of consecutive whitespace characters of s from position p on
SpaceRun(s, p) ==
  LET stop == {i \in p..(Len(s) + 1) : i = Len(s) + 1 \/ ~isSpace(CharAt(s, i))}
  IN Min(stop) - p

\* the alternation (?:\s|$|w1|w2|...) matches at position p
Terminated(s, p, words) ==
  \/ p = Len(s) + 1
  \/ p <= Len(s) /\ isSpace(CharAt(s, p))
  \/ \E k \in 1..Len(words) : StartsAt(s, p, words[k])

\* number of consecutive characters of the class [a-z\s] from position p on
ClassRun(s, p) ==
  LET stop == {i \in p..(Len(s) + 1) : i = Len(s) + 1 \/ ~isLetterOrSpace(CharAt(s, i))}
  IN Min(stop) - p

\* lengths m at which the lazy group ([a-z\s]+?) starting at g can stop
LazyStops(s, g, words) ==
  {m \in 1..ClassRun(s, g) : Terminated(s, g + m, words)}

\* lengths k of the greedy \s+ after the anchor (ending before position w)
\* for which the rest of the pattern can match
SpaceChoices(s, w, words) ==
  {k \in 1..SpaceRun(s, w) : LazyStops(s, w + k, words) # {}}

\* /anchor\s+([a-z\s]+?)(?:\s|$|words...)/
matchAnchored(s, anchor, words) ==
  LET starts == {i \in 1..Len(s) :
                   /\ StartsAt(s, i, anchor)
                   /\ SpaceChoices(s, i + Len(anchor), words) # {}}
  IN IF starts = {} THEN <<>>
     ELSE LET i == Min(starts)
              w == i + Len(anchor)
              k == Max(SpaceChoices(s, w, words))
              g == w + k
              m == Min(LazyStops(s, g, words))
          IN <<SubSeq(s, i, g + m - 1), SubSeq(s, g, g + m - 1)>>

\* the last position at which an alternative matches instead of the first
matchAlternationRightmost(s, alts) ==
  LET starts == {i \in 1..Len(s) : \E k \in 1..Len(alts) : StartsAt(s, i, alts[k])}
  IN IF starts = {} THEN <<>>
     ELSE LET i == Max(starts)
              k == Min({n \in 1..Len(alts) : StartsAt(s, i, alts[n])})
          IN <<alts[k]>>

\* /(?:a1|a2|...)/ : leftmost position, then the first alternative in order
matchAlternation(s, alts) ==
  LET starts == {i \in 1..Len(s) : \E k \in 1..Len(alts) : StartsAt(s, i, alts[k])}
  IN IF starts = {} THEN <<>>
     ELSE LET i == Min(starts)
              k == Min({n \in 1..Len(alts) : StartsAt(s, i, alts[n])})
          IN <<alts[k]>>

\* length of the greedy match of \d{1,2}(?::\d{2})?\s*(?:am|pm|AM|PM)? at g
\* (0: no match); every part after \d{1,2} is optional and nothing follows
\* the group, so the greedy choices never backtrack
TimeLen(s, g) ==
  LET digitAt(p) == p <= Len(s) /\ isDigit(CharAt(s, p))
      d  == IF digitAt(g) THEN (IF digitAt(g + 1) THEN 2 ELSE 1) ELSE 0
      p1 == g + d
      c  == IF StartsAt(s, p1, ":") /\ digitAt(p1 + 1) /\ digitAt(p1 + 2)
            THEN 3 ELSE 0
      p2 == p1 + c
      sp == SpaceRun(s, p2)
      p3 == p2 + sp
      ap == IF \E x \in {"am", "pm", "AM", "PM"} : StartsAt(s, p3, x)
            THEN 2 ELSE 0
  IN IF d = 0 THEN 0 ELSE d + c + sp + ap

\* /(?:after|at|before)\s+(\d{1,2}(?::\d{2})?\s*(?:am|pm|AM|PM)?)/
matchTime(s) ==
  LET heads == <<"after", "at", "before">>
      groupAt(i, k) == i + Len(heads[k]) + SpaceRun(s, i + Len(heads[k]))
      ok(i, k) == /\ StartsAt(s, i, heads[k])
                  /\ SpaceRun(s, i + Len(heads[k])) >= 1
                  /\ TimeLen(s, groupAt(i, k)) > 0
      starts == {i \in 1..Len(s) : \E k \in 1..3 : ok(i, k)}
  IN IF starts = {} THEN <<>>
     ELSE LET i == Min(starts)
              k == Min({n \in 1..3 : ok(i, n)})
              g == groupAt(i, k)
              e == g + TimeLen(s, g) - 1
          IN <<SubSeq(s, i, e), SubSeq(s, g, e)>>

DestinationTerminators == <<"after", "before", "on", "at">>
OriginTerminators == <<"to", "after", "before", "on", "at">>
DateTokens == <<"on", "today", "tomorrow", "yesterday">>
AirlineNames ==
  <<"british airways", "lufthansa", "american airlines", "emirates", "air france">>

parseNaturalLanguageQuery(q) ==
  LET lowercaseQuery == toLowerCase(q)
      toMatch == matchAnchored(lowercaseQuery, "to", DestinationTerminators)
      fromMatch == matchAnchored(lowercaseQuery, "from", OriginTerminators)
      timeMatch == matchTime(lowercaseQuery)
      dateMatch == matchAlternation(lowercaseQuery, DateTokens)
      airlineMatch == matchAlternation(lowercaseQuery, AirlineNames)
      fields == (IF toMatch # <<>> THEN {"destination"} ELSE {})
                \cup (IF fromMatch # <<>> THEN {"origin"} ELSE {})
                \cup (IF timeMatch # <<>> THEN {"time"} ELSE {})
                \cup (IF dateMatch # <<>> THEN {"date"} ELSE {})
                \cup (IF airlineMatch # <<>> THEN {"airline"} ELSE {})
  IN [f \in fields |->
        CASE f = "destination" -> trim(toMatch[2])
          [] f = "origin" -> trim(fromMatch[2])
          [] f = "time" -> trim(timeMatch[2])
          [] f = "date" -> trim(dateMatch[1])
          [] f = "airline" -> trim(airlineMatch[1])]

\* a SearchQuery field read in a condition: absent (undefined) and "" are falsy
Truthy(p, f) == f \in DOMAIN p /\ p[f] # ""

----------------------------------------------------------------------------
(* Flights (src/lib/mockData.ts).  A flight carries the fields that        *)
(* searchFlights reads, and id and flightNumber to tell flights apart; the *)
(* other fields of the Flight interface are never read by the code.        *)

Flight(id, flightNumber, airline, origin, destination, departureTime) ==
  [id |-> id, flightNumber |-> flightNumber, airline |-> airline,
   origin |-> origin, destination |-> destination,
   departureTime |-> departureTime]

MockFlights ==
  << Flight("1", "BA123", "British Airways", "LHR", "JFK", "2025-01-16T14:30:00Z"),
     Flight("2", "LH456", "Lufthansa", "FRA", "CDG", "2025-01-16T15:15:00Z"),
     Flight("3", "AA789", "American Airlines", "LAX", "ORD", "2025-01-16T16:00:00Z"),
     Flight("4", "EK101", "Emirates", "DXB", "LHR", "2025-01-16T09:00:00Z"),
     Flight("5", "AF202", "Air France", "CDG", "NRT", "2025-01-17T10:30:00Z") >>

\* the code -> city table of getCityName
Airports ==
  << <<"LHR", "London">>, <<"JFK", "New York">>, <<"FRA", "Frankfurt">>,
     <<"CDG", "Paris">>, <<"LAX", "Los Angeles">>, <<"ORD", "Chicago">>,
     <<"DXB", "Dubai">>, <<"NRT", "Tokyo">> >>

getCityName(airportCode) ==
  IF \E i \in 1..Len(Airports) : Airports[i][1] = airportCode
  THEN Airports[CHOOSE i \in 1..Len(Airports) : Airports[i][1] = airportCode][2]
  ELSE airportCode

----------------------------------------------------------------------------
(* new Date(iso).getTime() for timestamps "YYYY-MM-DDTHH:mm:ssZ", counted  *)
(* in seconds since 1970-01-01T00:00:00Z (the code's milliseconds are      *)
(* these times 1000; only differences and their signs are used).           *)

RECURSIVE ParseNat(_)
ParseNat(s) ==
  IF Len(s) = 0 THEN 0
  ELSE 10 * ParseNat(SubSeq(s, 1, Len(s) - 1)) + (IndexIn(CharAt(s, Len(s)), DigitChars) - 1)

IsLeapYear(y) == (y % 4 = 0 /\ y % 100 # 0) \/ y % 400 = 0

DaysBeforeYear(y) ==
  365 * (y - 1970) + ((y - 1969) \div 4) - ((y - 1901) \div 100) + ((y - 1601) \div 400)

DaysBeforeMonth(y, m) ==
  <<0, 31, 59, 90, 120, 151, 181, 212, 243, 273, 304, 334>>[m]
    + (IF m > 2 /\ IsLeapYear(y) THEN 1 ELSE 0)

getTime(iso) ==
  LET y  == ParseNat(SubSeq(iso, 1, 4))
      mo == ParseNat(SubSeq(iso, 6, 7))
      d  == ParseNat(SubSeq(iso, 9, 10))
      h  == ParseNat(SubSeq(iso, 12, 13))
      mi == ParseNat(SubSeq(iso, 15, 16))
      sc == ParseNat(SubSeq(iso, 18, 19))
      days == DaysBeforeYear(y) + DaysBeforeMonth(y, mo) + (d - 1)
  IN ((days * 24 + h) * 60 + mi) * 60 + sc

----------------------------------------------------------------------------
(* searchFlights                                                           *)

\* destinationKeywords.some(keyword => code.includes(keyword) || city.includes(keyword))
someKeywordIn(keywords, airportCode) ==
  \E k \in 1..Len(keywords) :
     \/ includes(toLowerCase(airportCode), keywords[k])
     \/ includes(toLowerCase(getCityName(airportCode)), keywords[k])

\* the destination keywords tested against the origin of the flight
filterByDestinationOnOrigin(flights, parsedQuery) ==
  IF Truthy(parsedQuery, "destination")
  THEN LET destinationKeywords == split(parsedQuery.destination)
       IN SelectSeq(flights, LAMBDA flight : someKeywordIn(destinationKeywords, flight.origin))
  ELSE flights

filterByDestination(flights, parsedQuery) ==
  IF Truthy(parsedQuery, "destination")
  THEN LET destinationKeywords == split(parsedQuery.destination)
       IN SelectSeq(flights, LAMBDA flight : someKeywordIn(destinationKeywords, flight.destination))
  ELSE flights

\* the origin keywords tested against the destination of the flight
filterByOriginOnDestination(flights, parsedQuery) ==
  IF Truthy(parsedQuery, "origin")
  THEN LET originKeywords == split(parsedQuery.origin)
       IN SelectSeq(flights, LAMBDA flight : someKeywordIn(originKeywords, flight.destination))
  ELSE flights

filterByOrigin(flights, parsedQuery) ==
  IF Truthy(parsedQuery, "origin")
  THEN LET originKeywords == split(parsedQuery.origin)
       IN SelectSeq(flights, LAMBDA flight : someKeywordIn(originKeywords, flight.origin))
  ELSE flights

\* the airline filter followed by a filter on the parsed date
filterByAirlineAndDate(flights, parsedQuery) ==
  LET byAirline ==
        IF Truthy(parsedQuery, "airline")
        THEN SelectSeq(flights, LAMBDA flight : includes(toLowerCase(flight.airline), parsedQuery.airline))
        ELSE flights
  IN IF Truthy(parsedQuery, "date")
     THEN SelectSeq(byAirline, LAMBDA flight : includes(toLowerCase(flight.departureTime), parsedQuery.date))
     ELSE byAirline

filterByAirline(flights, parsedQuery) ==
  IF Truthy(parsedQuery, "airline")
  THEN SelectSeq(flights, LAMBDA flight : includes(toLowerCase(flight.airline), parsedQuery.airline))
  ELSE flights

\* the comparator with its operands exchanged
compareDepartureReversed(a, b) == getTime(b.departureTime) - getTime(a.departureTime)

\* the comparator handed to Array.prototype.sort
compareDeparture(a, b) == getTime(a.departureTime) - getTime(b.departureTime)

\* an element goes before the elements that compare equal to it
insertSortedUnstable(sorted, x) ==
  LET p == Cardinality({i \in 1..Len(sorted) : compareDeparture(sorted[i], x) < 0})
  IN SubSeq(sorted, 1, p) \o <<x>> \o SubSeq(sorted, p + 1, Len(sorted))

\* Array.prototype.sort is stable: an element goes behind every element that
\* does not compare greater than it
insertSorted(sorted, x) ==
  LET p == Cardinality({i \in 1..Len(sorted) : compareDeparture(sorted[i], x) <= 0})
  IN SubSeq(sorted, 1, p) \o <<x>> \o SubSeq(sorted, p + 1, Len(sorted))

RECURSIVE sortByDeparture(_)
sortByDeparture(flights) ==
  IF Len(flights) = 0 THEN <<>>
  ELSE insertSorted(sortByDeparture(SubSeq(flights, 1, Len(flights) - 1)),
                    flights[Len(flights)])

\* the entries 0..n, one more than slice(0, n)
sliceInclusive(flights, n) == SubSeq(flights, 1, IF Len(flights) < n + 1 THEN Len(flights) ELSE n + 1)

\* Array.prototype.slice(0, n)
slice(flights, n) == SubSeq(flights, 1, IF Len(flights) < n THEN Len(flights) ELSE n)

TopResults == 10

\* the body of searchFlights once parsedQuery is known
filterSortSlice(flights, parsedQuery) ==
  slice(sortByDeparture(
          filterByAirline(
            filterByOrigin(
              filterByDestination(flights, parsedQuery), parsedQuery), parsedQuery)),
        TopResults)

\* parsedQuery is bound once, to the value of parseNaturalLanguageQuery(q)
searchFlights(q) ==
  CHOOSE r \in {filterSortSlice(mockFlights, parsedQuery) :
                  parsedQuery \in {parseNaturalLanguageQuery(q)}} : TRUE

(* Array objects.  The sort of line 82 works in place on the array that    *)
(* filteredFlights refers to; the flag tells whether that array is the     *)
(* module-level mockFlights array itself.                                  *)

\* `let filteredFlights = mockFlights`: the same array object
assignSameArray(isShared) == isShared

\* `let filteredFlights = [...mockFlights]`: the spread makes a new array
spreadNewArray(isShared) == FALSE

\* Array.prototype.filter returns a new array, and filteredFlights is
\* reassigned only under a truthy field
sharedAfterFilters(isShared, parsedQuery) ==
  /\ isShared
  /\ ~Truthy(parsedQuery, "destination")
  /\ ~Truthy(parsedQuery, "origin")
  /\ ~Truthy(parsedQuery, "airline")

\* the shared array sorted and cut to its first TopResults entries in place
mockFlightsSplicedBySearch(flights, parsedQuery) ==
  slice(sortByDeparture(flights), TopResults)

\* the content of the shared array when searchFlights returns: sorted in
\* place if the sorted array is the shared one; slice(0, 10) copies
mockFlightsAfterSearch(flights, parsedQuery) ==
  IF sharedAfterFilters(spreadNewArray(TRUE), parsedQuery)
  THEN sortByDeparture(flights)
  ELSE flights

\* what a call leaves behind: the returned array and the shared array
runSearch(flights, parsedQuery) ==
  [returned |-> filterSortSlice(flights, parsedQuery),
   shared |-> mockFlightsAfterSearch(flights, parsedQuery)]

searchEffect(q) ==
  CHOOSE r \in {runSearch(mockFlights, parsedQuery) :
                  parsedQuery \in {parseNaturalLanguageQuery(q)}} : TRUE

----------------------------------------------------------------------------
(* generateChatbotResponse: the first rule whose keywords occur in the     *)
(* lower-cased message decides the response.                               *)

FlightSearchResponse ==
  "I can help you search for flights using natural language! Try saying something like 'Find flights to London after 3 PM tomorrow' or 'Show me flights from New York to Paris'."
RunwayResponse ==
  "You can check our runway optimization dashboard for real-time runway status, capacity metrics, and delay information. Currently, Runway 27L is experiencing some delays due to maintenance."
AlertResponse ==
  "Check the alerts page for the latest airport notifications. We currently have active alerts about runway closures and weather conditions."
GateResponse ==
  "For gate and terminal information, please check your specific flight details. Most flights display gate assignments 2 hours before departure."
WeatherResponse ==
  "Current weather conditions show strong crosswinds expected between 15:00-18:00, which may cause some flight delays. Check the alerts page for the latest updates."
GreetingResponse ==
  "Hello! I'm your airport assistant. I can help you with flight searches, runway information, alerts, and general airport queries. What would you like to know?"
FallbackResponse ==
  "I'm here to help with airport operations, flight searches, runway information, and alerts. You can ask me about flight schedules, runway status, or any other airport-related questions!"

\* the rules once lowercaseMessage is known, the first rule with || for &&
respondToLowercaseEitherWord(lowercaseMessage) ==
  IF includes(lowercaseMessage, "flight") \/ includes(lowercaseMessage, "search")
    THEN FlightSearchResponse
  ELSE IF includes(lowercaseMessage, "runway") \/ includes(lowercaseMessage, "delay")
    THEN RunwayResponse
  ELSE IF includes(lowercaseMessage, "alert") \/ includes(lowercaseMessage, "notification")
    THEN AlertResponse
  ELSE IF includes(lowercaseMessage, "gate") \/ includes(lowercaseMessage, "terminal")
    THEN GateResponse
  ELSE IF includes(lowercaseMessage, "weather")
    THEN WeatherResponse
  ELSE IF includes(lowercaseMessage, "hello") \/ includes(lowercaseMessage, "hi")
    THEN GreetingResponse
  ELSE FallbackResponse

\* the rules once lowercaseMessage is known
respondToLowercase(lowercaseMessage) ==
  IF includes(lowercaseMessage, "flight") /\ includes(lowercaseMessage, "search")
    THEN FlightSearchResponse
  ELSE IF includes(lowercaseMessage, "runway") \/ includes(lowercaseMessage, "delay")
    THEN RunwayResponse
  ELSE IF includes(lowercaseMessage, "alert") \/ includes(lowercaseMessage, "notification")
    THEN AlertResponse
  ELSE IF includes(lowercaseMessage, "gate") \/ includes(lowercaseMessage, "terminal")
    THEN GateResponse
  ELSE IF includes(lowercaseMessage, "weather")
    THEN WeatherResponse
  ELSE IF includes(lowercaseMessage, "hello") \/ includes(lowercaseMessage, "hi")
    THEN GreetingResponse
  ELSE FallbackResponse

generateChatbotResponse(m) ==
  CHOOSE r \in {respondToLowercase(lowercaseMessage) :
                  lowercaseMessage \in {toLowerCase(m)}} : TRUE

----------------------------------------------------------------------------
(* apiService, the facade in front of the backend.  A method awaits one    *)
(* fetch; what the transport does is the outcome: fetch rejects, or it     *)
(* resolves with a response that is not ok, or with an ok response whose   *)
(* JSON body is given.  A method returns a promise, whose settlement is    *)
(* the value it is fulfilled with or the fact that it is rejected.         *)

Rejects == [fetch |-> "rejects"]
NotOk == [fetch |-> "resolves", ok |-> FALSE]
Ok(body) == [fetch |-> "resolves", ok |-> TRUE, body |-> body]

\* the outcomes that take a method into its catch block: fetch rejects, or
\* `if (!response.ok) throw`
TransportFailures == {Rejects, NotOk}

Failed(outcome) == outcome \in TransportFailures

Fulfilled(value) == [state |-> "fulfilled", value |-> value]
RejectedPromise == [state |-> "rejected"]

\* JSON null, as a value that can be compared with the arrays of the model
Null == <<[json |-> "null"]>>

\* String.prototype.substring(0, n)
substring(s, n) == SubSeq(s, 1, IF Len(s) < n THEN Len(s) ELSE n)

\* String.prototype.split('-')
RECURSIVE splitDash(_)
splitDash(s) ==
  LET at == {i \in 1..Len(s) : CharAt(s, i) = "-"}
  IN IF at = {} THEN <<s>>
     ELSE <<SubSeq(s, 1, Min(at) - 1)>> \o splitDash(SubSeq(s, Min(at) + 1, Len(s)))

\* the object built from one backend flight; price is the value drawn by
\* Math.floor(Math.random() * 500) + 200
mapFlight(flight, price) ==
  [id |-> flight.Flight_Number \o "_" \o flight.Date,
   flight_number |-> flight.Flight_Number,
   airline |-> substring(flight.Flight_Number, 2),
   origin |-> splitDash(flight.Route)[1],
   destination |-> splitDash(flight.Route)[2],
   departure_time |-> flight.STD_DateTime,
   arrival_time |-> flight.STA_DateTime,
   status |-> IF flight.Departure_Delay_Minutes > 0 THEN "Delayed" ELSE "On Time",
   gate |-> "TBD",
   terminal |-> "T1",
   aircraft |-> "Boeing 737",
   price |-> price]

mapFlights(data, prices) == [i \in 1..Len(data) |-> mapFlight(data[i], prices[i])]

\* the single flight getFlights returns from its catch block
CannedFlight ==
  [id |-> 1, flight_number |-> "BA123", airline |-> "British Airways",
   origin |-> "LHR", destination |-> "JFK",
   departure_time |-> "2024-01-15T14:00:00Z", arrival_time |-> "2024-01-15T20:00:00Z",
   status |-> "On Time", gate |-> "A12", terminal |-> "T1",
   aircraft |-> "Boeing 777", price |-> 899]

\* the single alert getAlerts returns from its catch block
CannedAlert ==
  [id |-> 1, type |-> "critical", title |-> "Runway Closure",
   message |-> "Runway 27L temporarily closed",
   timestamp |-> "2024-01-15T10:00:00Z", resolved |-> FALSE]

FallbackUtilization == 78

getFlights(outcome, prices) ==
  IF Failed(outcome) THEN Fulfilled(<<CannedFlight>>)
  ELSE Fulfilled(mapFlights(outcome.body, prices))

mapAlert(alert) ==
  [id |-> alert.id, type |-> alert.type, title |-> alert.title,
   message |-> alert.message, timestamp |-> alert.timestamp,
   resolved |-> alert.resolved]

getAlerts(outcome) ==
  IF Failed(outcome) THEN Fulfilled(<<CannedAlert>>)
  ELSE Fulfilled([i \in 1..Len(outcome.body) |-> mapAlert(outcome.body[i])])

\* Math.round((total_flights / 500) * 100) for a total that is not negative
utilizationOf(total_flights) == (2 * total_flights + 5) \div 10

\* a body without total_flights gives NaN, and NaN and 0 are falsy
getRunwayStatistics(outcome) ==
  IF Failed(outcome) THEN Fulfilled([average_utilization |-> FallbackUtilization])
  ELSE LET data == outcome.body
           has == "total_flights" \in DOMAIN data
       IN Fulfilled(
            [average_utilization |->
               IF has /\ utilizationOf(data.total_flights) # 0
               THEN utilizationOf(data.total_flights) ELSE FallbackUtilization,
             total_flights |-> IF has THEN data.total_flights ELSE 0,
             avg_delays |-> IF "average_delays" \in DOMAIN data
                            THEN data.average_delays ELSE 0])

searchFlightsNLP(outcome, prices) ==
  IF Failed(outcome) THEN Fulfilled(<<>>)
  ELSE Fulfilled(mapFlights(outcome.body, prices))

\* the catch block logs the error and throws it again
sendChatMessage(outcome) ==
  IF Failed(outcome) THEN RejectedPromise ELSE Fulfilled(outcome.body)

\* the catch block returning {} instead of throwing again
getRunwayOptimizationDataSwallowing(outcome) ==
  IF Failed(outcome) THEN Fulfilled([x \in {} |-> 0]) ELSE Fulfilled(outcome.body)

getRunwayOptimizationData(outcome) ==
  IF Failed(outcome) THEN RejectedPromise ELSE Fulfilled(outcome.body)

\* the catch block returns {}
getFlightStatistics(outcome) ==
  IF Failed(outcome) THEN Fulfilled([x \in {} |-> 0]) ELSE Fulfilled(outcome.body)

\* the catch block rethrowing instead of returning []
getRunwayMetricsRethrowing(outcome) ==
  IF Failed(outcome) THEN RejectedPromise ELSE Fulfilled(outcome.body)

getRunwayMetrics(outcome) ==
  IF Failed(outcome) THEN Fulfilled(<<>>) ELSE Fulfilled(outcome.body)

Methods ==
  {"getFlights", "getAlerts", "getRunwayStatistics", "searchFlightsNLP",
   "sendChatMessage", "getRunwayOptimizationData", "getFlightStatistics",
   "getRunwayMetrics"}

apiService(method, outcome, prices) ==
  CASE method = "getFlights" -> getFlights(outcome, prices)
    [] method = "getAlerts" -> getAlerts(outcome)
    [] method = "getRunwayStatistics" -> getRunwayStatistics(outcome)
    [] method = "searchFlightsNLP" -> searchFlightsNLP(outcome, prices)
    [] method = "sendChatMessage" -> sendChatMessage(outcome)
    [] method = "getRunwayOptimizationData" -> getRunwayOptimizationData(outcome)
    [] method = "getFlightStatistics" -> getFlightStatistics(outcome)
    [] method = "getRunwayMetrics" -> getRunwayMetrics(outcome)

(* What the backend may answer.                                            *)

MaxBody == 2

BackendFlights ==
  << [Flight_Number |-> "BA123", Date |-> "2025-01-16", Route |-> "LHR-JFK",
      STD_DateTime |-> "2025-01-16T14:30:00Z", STA_DateTime |-> "2025-01-16T22:45:00Z",
      Departure_Delay_Minutes |-> 0],
     [Flight_Number |-> "LH456", Date |-> "2025-01-16", Route |-> "FRA-CDG",
      STD_DateTime |-> "2025-01-16T15:15:00Z", STA_DateTime |-> "2025-01-16T16:45:00Z",
      Departure_Delay_Minutes |-> 25] >>

BackendAlerts ==
  << [id |-> "7", type |-> "critical", title |-> "Runway 09R Closure",
      message |-> "Runway 09R closed", timestamp |-> "2025-01-16T14:15:00Z",
      resolved |-> FALSE],
     [id |-> "8", type |-> "warning", title |-> "Weather Advisory",
      message |-> "Strong crosswinds", timestamp |-> "2025-01-16T13:45:00Z",
      resolved |-> FALSE] >>

BackendMetrics ==
  << [runway |-> "27L", utilization |-> 85, capacity |-> 40, delays |-> 3, conflicts |-> 0],
     [runway |-> "09R", utilization |-> 130, capacity |-> 30, delays |-> 9, conflicts |-> 2] >>

\* the sequences of at most n elements of pool
ListsOf(pool, n) ==
  UNION {{[i \in 1..k |-> pool[f[i]]] : f \in [1..k -> 1..Len(pool)]} : k \in 0..n}

Bodies(method, maxBody) ==
  CASE method \in {"getFlights", "searchFlightsNLP"} -> ListsOf(BackendFlights, maxBody)
    [] method = "getAlerts" -> ListsOf(BackendAlerts, maxBody)
    [] method = "getRunwayStatistics" ->
         {[total_flights |-> 0, average_delays |-> 0],
          [total_flights |-> 2, average_delays |-> 0],
          [total_flights |-> 390, average_delays |-> 12],
          [total_flights |-> 612, average_delays |-> 31],
          [average_delays |-> 4]}
    [] method = "sendChatMessage" ->
         {[response |-> "Flight BA123 departs from gate A12."], [response |-> ""]}
    [] method = "getRunwayOptimizationData" -> {[recommendations |-> <<>>]}
    [] method = "getFlightStatistics" ->
         {[total_flights |-> 120, total_delays |-> 14], [total_flights |-> 0, total_delays |-> 0]}
    [] method = "getRunwayMetrics" -> ListsOf(BackendMetrics, maxBody) \cup {Null}

Outcomes(method, maxBody) ==
  TransportFailures \cup {Ok(body) : body \in Bodies(method, maxBody)}

\* the least and the greatest value of Math.floor(Math.random() * 500) + 200
Prices == {200, 699}

\* one draw of Math.random for every flight that is mapped
PriceDraws(method, outcome, prices) ==
  IF method \in {"getFlights", "searchFlightsNLP"} /\ ~Failed(outcome)
  THEN [1..Len(outcome.body) -> prices]
  ELSE {<<>>}

\* the argument of the call: the text of the request body
Arguments(method) ==
  CASE method = "searchFlightsNLP" -> {"Next available flight to Tokyo", "to london"}
    [] method = "sendChatMessage" -> {"hello", "any delays?"}
    [] OTHER -> {""}

(* One call of a method at a time, from the call to the settlement of the  *)
(* promise it returns.                                                     *)

ApiIdle == apiCall = [phase |-> "idle"]

\* the call up to `await fetch(...)`
Invoke(method, argument) ==
  /\ apiCall.phase # "pending"
  /\ apiCall' = [phase |-> "pending", method |-> method, argument |-> argument]
  /\ UNCHANGED <<coreVars, chatVars, bookingVars, alertVars, dashboardVars,
                 scheduleVars, analyticsVars>>

\* the rest of the method once fetch has settled
Settle ==
  /\ apiCall.phase = "pending"
  /\ \E outcome \in Outcomes(apiCall.method, MaxBody) :
       \E prices \in PriceDraws(apiCall.method, outcome, Prices) :
         apiCall' = [phase |-> "settled", method |-> apiCall.method,
                     argument |-> apiCall.argument, outcome |-> outcome,
                     settlement |-> apiService(apiCall.method, outcome, prices)]
  /\ UNCHANGED <<coreVars, chatVars, bookingVars, alertVars, dashboardVars,
                 scheduleVars, analyticsVars>>

ApiInvoke == \E method \in Methods : \E argument \in Arguments(method) : Invoke(method, argument)

NextFacade == ApiInvoke \/ Settle

----------------------------------------------------------------------------
(* The pages.  A promise that has not settled yet is Pending; a request of *)
(* a page is recorded with the outcome of its fetch once it has one.       *)

Pending == [state |-> "pending"]
InFlight == [fetch |-> "pending"]

\* the records a page's request may be answered with
PageBody == 1

\* Number.prototype.toString of a number that is not negative
RECURSIVE toString(_)
toString(n) ==
  IF n < 10 THEN CharAt(DigitChars, n + 1)
  ELSE toString(n \div 10) \o CharAt(DigitChars, (n % 10) + 1)

----------------------------------------------------------------------------
(* Chatbot (src/components/chatbot.tsx).  now is the value of Date.now();  *)
(* chatRequests lists the sendChatMessage calls in the order they were     *)
(* made.  The timestamp of a message is left out.                          *)

ClockStart == 1000
MaxTicks == 1
MaxSends == 2

WelcomeMessage ==
  [id |-> "1", content |-> "Hello! I'm your airport assistant. How can I help you today?",
   sender |-> "bot"]

ApologyText ==
  "Sorry, I'm having trouble connecting to the server. Please try again later."

ChatTexts == {"", "  ", " any delays? "}

ChatIdle ==
  /\ messages = <<WelcomeMessage>>
  /\ input = ""
  /\ isLoading = FALSE
  /\ chatRequests = <<>>
  /\ now = ClockStart

\* onChange of the input field
SetInput(text) ==
  /\ input' = text
  /\ UNCHANGED <<messages, isLoading, chatRequests, now>>
  /\ UNCHANGED <<coreVars, apiVars, bookingVars, alertVars, dashboardVars,
                 scheduleVars, analyticsVars>>

\* handleSendMessage up to the await
handleSendMessage ==
  /\ IF trim(input) = ""
     THEN UNCHANGED <<messages, input, isLoading, chatRequests>>
     ELSE /\ Len(chatRequests) < MaxSends
          /\ messages' = Append(messages,
                [id |-> toString(now), content |-> input, sender |-> "user"])
          /\ input' = ""
          /\ isLoading' = TRUE
          /\ chatRequests' = Append(chatRequests,
                [message |-> input, outcome |-> InFlight, promise |-> Pending])
  /\ UNCHANGED now
  /\ UNCHANGED <<coreVars, apiVars, bookingVars, alertVars, dashboardVars,
                 scheduleVars, analyticsVars>>

\* the send button is disabled while isLoading
ClickSend == ~isLoading /\ handleSendMessage

\* handleKeyPress: Enter calls handleSendMessage whatever isLoading is
PressEnter == handleSendMessage

\* the bot message shows the error's message
botReplyErrorMessage(promise) ==
  IF promise.state = "fulfilled" THEN promise.value.response
  ELSE "Failed to send message"

\* the content of the bot message: response.response in the try block, the
\* fixed text in the catch block
botReply(promise) ==
  IF promise.state = "fulfilled" THEN promise.value.response ELSE ApologyText

\* handleSendMessage of request n from the await on: try or catch, finally
CompleteChat(n) ==
  /\ chatRequests[n].promise = Pending
  /\ \E outcome \in Outcomes("sendChatMessage", PageBody) :
       LET promise == sendChatMessage(outcome)
       IN /\ messages' = Append(messages,
                [id |-> toString(now + 1), content |-> botReply(promise), sender |-> "bot"])
          /\ chatRequests' = [chatRequests EXCEPT ![n] =
                [message |-> @.message, outcome |-> outcome, promise |-> promise]]
  /\ isLoading' = FALSE
  /\ UNCHANGED <<input, now>>
  /\ UNCHANGED <<coreVars, apiVars, bookingVars, alertVars, dashboardVars,
                 scheduleVars, analyticsVars>>

\* a millisecond passes
Tick ==
  /\ now < ClockStart + MaxTicks
  /\ now' = now + 1
  /\ UNCHANGED <<messages, input, isLoading, chatRequests>>
  /\ UNCHANGED <<coreVars, apiVars, bookingVars, alertVars, dashboardVars,
                 scheduleVars, analyticsVars>>

TypeInput == \E text \in ChatTexts : SetInput(text)

ChatResponse == \E n \in 1..Len(chatRequests) : CompleteChat(n)

NextChat == TypeInput \/ ClickSend \/ PressEnter \/ ChatResponse \/ Tick

----------------------------------------------------------------------------
(* Booking page (src/app/booking/page.tsx).  Its state `query` and         *)
(* `results` are bookingQuery and bookingResults here.  searchRequests     *)
(* lists the searchFlightsNLP calls in the order they were made, each with *)
(* the set of earlier calls that were pending then; searchTimers are the   *)
(* setTimeout callbacks of the example buttons, each with the query that   *)
(* the handleSearch it calls has in its closure and the example clicked.   *)

MaxSearches == 2
MaxTimers == 1
MaxExamples == 2

exampleQueries ==
  <<"Find flights to London after 3 PM tomorrow",
    "Show me flights from New York to Paris",
    "British Airways flights to Dubai",
    "Next available flight to Tokyo">>

BookingTexts == {"", " ", "to london"}

BookingIdle ==
  /\ bookingQuery = ""
  /\ bookingResults = <<>>
  /\ isSearching = FALSE
  /\ hasSearched = FALSE
  /\ searchRequests = <<>>
  /\ searchTimers = <<>>

PendingSearches == {n \in 1..Len(searchRequests) : searchRequests[n].promise = Pending}

\* onChange of the query field
SetQuery(text) ==
  /\ bookingQuery' = text
  /\ UNCHANGED <<bookingResults, isSearching, hasSearched, searchRequests, searchTimers>>
  /\ UNCHANGED <<coreVars, apiVars, chatVars, alertVars, dashboardVars,
                 scheduleVars, analyticsVars>>

\* handleSearch up to the await; q is the `query` of the render the handler
\* belongs to
handleSearch(q) ==
  /\ IF trim(q) = ""
     THEN UNCHANGED <<isSearching, hasSearched, searchRequests>>
     ELSE /\ Len(searchRequests) < MaxSearches
          /\ isSearching' = TRUE
          /\ hasSearched' = TRUE
          /\ searchRequests' = Append(searchRequests,
                [query |-> q, overlaps |-> PendingSearches, promise |-> Pending])
  /\ UNCHANGED bookingResults
  /\ UNCHANGED <<coreVars, apiVars, chatVars, alertVars, dashboardVars,
                 scheduleVars, analyticsVars>>

\* the search button is disabled while isSearching
ClickSearch == ~isSearching /\ handleSearch(bookingQuery) /\ UNCHANGED <<bookingQuery, searchTimers>>

\* handleKeyPress: Enter calls handleSearch whatever isSearching is
PressEnterSearch == handleSearch(bookingQuery) /\ UNCHANGED <<bookingQuery, searchTimers>>

\* onClick of an example button: setQuery(example) and a timer for the
\* handleSearch of the current render
ClickExample(example) ==
  /\ Len(searchTimers) < MaxTimers
  /\ bookingQuery' = example
  /\ searchTimers' = Append(searchTimers, [query |-> bookingQuery, example |-> example])
  /\ UNCHANGED <<bookingResults, isSearching, hasSearched, searchRequests>>
  /\ UNCHANGED <<coreVars, apiVars, chatVars, alertVars, dashboardVars,
                 scheduleVars, analyticsVars>>

\* the timer of an example button fires after 100 ms
TimerFires ==
  /\ searchTimers # <<>>
  /\ handleSearch(Head(searchTimers).query)
  /\ searchTimers' = Tail(searchTimers)
  /\ UNCHANGED bookingQuery

\* what handleSearch of request n sets as results: setResults(searchResults)
\* in the try block, setResults([]) in the catch block
shownAfter(n, promise) ==
  IF promise.state = "fulfilled" THEN promise.value ELSE <<>>

\* handleSearch of request n from the await on: try or catch, finally
CompleteSearch(n) ==
  /\ searchRequests[n].promise = Pending
  /\ \E outcome \in Outcomes("searchFlightsNLP", PageBody) :
       \E prices \in PriceDraws("searchFlightsNLP", outcome, Prices) :
         LET promise == searchFlightsNLP(outcome, prices)
         IN /\ bookingResults' = shownAfter(n, promise)
            /\ searchRequests' = [searchRequests EXCEPT ![n] =
                  [query |-> @.query, overlaps |-> @.overlaps, promise |-> promise]]
  /\ isSearching' = FALSE
  /\ UNCHANGED <<bookingQuery, hasSearched, searchTimers>>
  /\ UNCHANGED <<coreVars, apiVars, chatVars, alertVars, dashboardVars,
                 scheduleVars, analyticsVars>>

TypeQuery == \E text \in BookingTexts : SetQuery(text)

ExampleButton == \E i \in 1..MaxExamples : ClickExample(exampleQueries[i])

SearchResponse == \E n \in 1..Len(searchRequests) : CompleteSearch(n)

NextBooking ==
  TypeQuery \/ ClickSearch \/ PressEnterSearch \/ ExampleButton \/ TimerFires
    \/ SearchResponse

----------------------------------------------------------------------------
(* Alerts page (src/app/alerts/page.tsx)                                   *)

Alert(id, type, title, text, timestamp, resolved) ==
  [id |-> id, type |-> type, title |-> title, message |-> text,
   timestamp |-> timestamp, resolved |-> resolved]

MockAlerts ==
  << Alert("1", "critical", "Runway 27L Closure",
           "Runway 27L is temporarily closed due to maintenance work. Expected reopening at 17:00.",
           "2025-01-16T14:15:00Z", FALSE),
     Alert("2", "warning", "Weather Advisory",
           "Strong crosswinds expected between 15:00-18:00. Possible flight delays.",
           "2025-01-16T13:45:00Z", FALSE),
     Alert("3", "info", "Ground Services Update",
           "Ground services on standby for Flight AZ123 at Gate B12.",
           "2025-01-16T14:00:00Z", TRUE) >>

FilterTypes == {"all", "critical", "warning", "info"}

SearchTerms == {"", "runway", "WEATHER", "gate b12"}

\* the ids resolveAlert is called with: those of the alerts and an unknown one
AlertIds == {"1", "2", "3", "9"}

AlertsIdle ==
  /\ alerts = MockAlerts
  /\ searchTerm = ""
  /\ filterType = "all"
  /\ showResolved = FALSE

\* the map callback with `resolved: !alert.resolved`
toggleIfId(alert, id) ==
  IF alert.id = id THEN [alert EXCEPT !.resolved = ~alert.resolved] ELSE alert

\* the map callback: alert.id === id ? { ...alert, resolved: true } : alert
resolveIfId(alert, id) ==
  IF alert.id = id THEN [alert EXCEPT !.resolved = TRUE] ELSE alert

resolveAlert(id) ==
  /\ alerts' = [i \in 1..Len(alerts) |-> resolveIfId(alerts[i], id)]
  /\ UNCHANGED <<searchTerm, filterType, showResolved>>
  /\ UNCHANGED <<coreVars, apiVars, chatVars, bookingVars, dashboardVars,
                 scheduleVars, analyticsVars>>

setSearchTerm(term) ==
  /\ searchTerm' = term
  /\ UNCHANGED <<alerts, filterType, showResolved>>
  /\ UNCHANGED <<coreVars, apiVars, chatVars, bookingVars, dashboardVars,
                 scheduleVars, analyticsVars>>

setFilterType(type) ==
  /\ filterType' = type
  /\ UNCHANGED <<alerts, searchTerm, showResolved>>
  /\ UNCHANGED <<coreVars, apiVars, chatVars, bookingVars, dashboardVars,
                 scheduleVars, analyticsVars>>

\* onClick of the Show/Hide Resolved button
setShowResolved ==
  /\ showResolved' = ~showResolved
  /\ UNCHANGED <<alerts, searchTerm, filterType>>
  /\ UNCHANGED <<coreVars, apiVars, chatVars, bookingVars, dashboardVars,
                 scheduleVars, analyticsVars>>

\* the alerts the page lists
filteredAlerts ==
  SelectSeq(alerts, LAMBDA alert :
    /\ \/ includes(toLowerCase(alert.title), toLowerCase(searchTerm))
       \/ includes(toLowerCase(alert.message), toLowerCase(searchTerm))
    /\ filterType = "all" \/ alert.type = filterType
    /\ showResolved \/ ~alert.resolved)

MarkResolved == \E id \in AlertIds : resolveAlert(id)

TypeSearchTerm == \E term \in SearchTerms : setSearchTerm(term)

ChooseType == \E type \in FilterTypes : setFilterType(type)

NextAlerts == MarkResolved \/ TypeSearchTerm \/ ChooseType \/ setShowResolved

----------------------------------------------------------------------------
(* Dashboard (src/app/page.tsx).  dashboardRequests holds the five calls   *)
(* that fetchData hands to Promise.all, once the effect has run.           *)

MockActiveFlights == 12
MockCriticalAlerts == 2
MockUtilization == 78
UtilizationCap == 100
RecentFlights == 5

DashboardMethods ==
  {"getFlights", "getAlerts", "getRunwayStatistics", "getFlightStatistics",
   "getRunwayMetrics"}

DashboardIdle ==
  /\ activeFlights = 0
  /\ criticalAlerts = 0
  /\ avgRunwayUtilization = 0
  /\ recentFlights = <<>>
  /\ flightStats = <<>>
  /\ runwayMetrics = <<>>
  /\ loading = TRUE
  /\ dashboardRequests = <<>>

\* the effect calls fetchData, which makes the five calls
Mount ==
  /\ dashboardRequests = <<>>
  /\ dashboardRequests' =
       [method \in DashboardMethods |-> [outcome |-> InFlight, promise |-> Pending]]
  /\ UNCHANGED <<activeFlights, criticalAlerts, avgRunwayUtilization, recentFlights,
                 flightStats, runwayMetrics, loading>>
  /\ UNCHANGED <<coreVars, apiVars, chatVars, bookingVars, alertVars,
                 scheduleVars, analyticsVars>>

\* one of the five calls settles
Answer(method) ==
  /\ method \in DOMAIN dashboardRequests
  /\ dashboardRequests[method].promise = Pending
  /\ \E outcome \in Outcomes(method, PageBody) :
       \E prices \in PriceDraws(method, outcome, Prices) :
         dashboardRequests' = [dashboardRequests EXCEPT ![method] =
           [outcome |-> outcome, promise |-> apiService(method, outcome, prices)]]
  /\ UNCHANGED <<activeFlights, criticalAlerts, avgRunwayUtilization, recentFlights,
                 flightStats, runwayMetrics, loading>>
  /\ UNCHANGED <<coreVars, apiVars, chatVars, bookingVars, alertVars,
                 scheduleVars, analyticsVars>>

RECURSIVE sumUtilization(_)
sumUtilization(metrics) ==
  IF Len(metrics) = 0 THEN 0
  ELSE metrics[1].utilization + sumUtilization(Tail(metrics))

\* Math.round(sum / count) for a sum that is not negative
roundedAverage(sum, count) == (2 * sum + count) \div (2 * count)

\* Math.min(100, Math.round(reduce(...) / metrics.length))
averageOfMetrics(metrics) ==
  LET avg == roundedAverage(sumUtilization(metrics), Len(metrics))
  IN IF avg < UtilizationCap THEN avg ELSE UtilizationCap

\* Math.round(runwayStats.average_utilization || 0)
averageOfStatistics(runwayStats) ==
  IF "average_utilization" \in DOMAIN runwayStats THEN runwayStats.average_utilization
  ELSE 0

\* Promise.all has settled: all five fulfilled, or one rejected
AllSettled ==
  /\ dashboardRequests # <<>>
  /\ \/ \A method \in DashboardMethods : dashboardRequests[method].promise.state = "fulfilled"
     \/ \E method \in DashboardMethods : dashboardRequests[method].promise.state = "rejected"

\* the catch block and the finally block
fetchDataCatch ==
  /\ activeFlights' = MockActiveFlights
  /\ criticalAlerts' = MockCriticalAlerts
  /\ avgRunwayUtilization' = MockUtilization
  /\ loading' = FALSE
  /\ UNCHANGED <<recentFlights, flightStats, runwayMetrics>>

\* fetchData from the await on.  The catch block runs when Promise.all
\* rejects, and when metrics is null (metrics.length throws).
fetchData ==
  /\ loading
  /\ AllSettled
  /\ IF \E method \in DashboardMethods : dashboardRequests[method].promise.state = "rejected"
     THEN fetchDataCatch
     ELSE LET flights == dashboardRequests["getFlights"].promise.value
              allAlerts == dashboardRequests["getAlerts"].promise.value
              runwayStats == dashboardRequests["getRunwayStatistics"].promise.value
              stats == dashboardRequests["getFlightStatistics"].promise.value
              metrics == dashboardRequests["getRunwayMetrics"].promise.value
          IN IF metrics = Null
             THEN fetchDataCatch
             ELSE /\ activeFlights' = Len(flights)
                  /\ criticalAlerts' =
                       Cardinality({i \in 1..Len(allAlerts) : allAlerts[i].type = "critical"})
                  /\ avgRunwayUtilization' =
                       IF Len(metrics) > 0 THEN averageOfMetrics(metrics)
                       ELSE averageOfStatistics(runwayStats)
                  /\ recentFlights' = SubSeq(flights, 1, Min({Len(flights), RecentFlights}))
                  /\ flightStats' = stats
                  /\ runwayMetrics' = metrics
                  /\ loading' = FALSE
  /\ UNCHANGED dashboardRequests
  /\ UNCHANGED <<coreVars, apiVars, chatVars, bookingVars, alertVars,
                 scheduleVars, analyticsVars>>

Answers == \E method \in DashboardMethods : Answer(method)

NextDashboard == Mount \/ Answers \/ fetchData

----------------------------------------------------------------------------
(* Schedule optimization (src/app/schedule-optimization/page.tsx).         *)
(* scheduleRequests holds every call of getScheduleOptimizationSummary and *)
(* of optimizeFlightSchedule, in the order the calls were made.  A state   *)
(* that is an object or null holds a record; error, a string or null,      *)
(* holds [text |-> the string] or null.                                    *)

MaxFetches == 3

NullObject == [json |-> "null"]

availableAirports == <<"BOM", "DEL", "BLR", "HYD", "CCU">>

FlightNumbers == {"", "AI101"}

DepartureTimes == {"", "10:30"}

\* the catch block logs the error and returns null
getScheduleOptimizationSummary(outcome) ==
  IF Failed(outcome) THEN Fulfilled(NullObject) ELSE Fulfilled(outcome.body)

\* the catch block logs the error and returns null
optimizeFlightSchedule(outcome) ==
  IF Failed(outcome) THEN Fulfilled(NullObject) ELSE Fulfilled(outcome.body)

\* what the backend answers to a call with the given argument
ScheduleOutcomes(request) ==
  TransportFailures \cup
    {IF request.method = "getScheduleOptimizationSummary"
     THEN Ok([airport_code |-> request.argument, cascading_delays_count |-> 0])
     ELSE Ok([flight_number |-> request.argument, status |-> "optimized"])}

ScheduleIdle ==
  /\ scheduleAirportCode = "BOM"
  /\ summary = NullObject
  /\ scheduleLoading = FALSE
  /\ error = NullObject
  /\ scheduleFlightNumber = ""
  /\ newDepartureTime = ""
  /\ optimizationResult = NullObject
  /\ scheduleRequests = <<>>

\* the early return of the component shows the spinner alone
SpinnerShown == scheduleLoading /\ summary = NullObject

\* fetchSummary up to its await, for the airport code of the render
fetchSummary(code) ==
  /\ scheduleLoading' = TRUE
  /\ error' = NullObject
  /\ scheduleRequests' = Append(scheduleRequests,
       [method |-> "getScheduleOptimizationSummary", argument |-> code,
        outcome |-> InFlight, promise |-> Pending])

\* the effect of the first render
MountSchedule ==
  /\ scheduleRequests = <<>>
  /\ fetchSummary(scheduleAirportCode)
  /\ UNCHANGED <<scheduleAirportCode, summary, scheduleFlightNumber, newDepartureTime,
                 optimizationResult>>
  /\ UNCHANGED <<coreVars, apiVars, chatVars, bookingVars, alertVars, dashboardVars,
                 analyticsVars>>

\* onChange of the select, and the effect that depends on scheduleAirportCode
setAirportCode(code) ==
  /\ scheduleRequests # <<>>
  /\ Len(scheduleRequests) < MaxFetches
  /\ ~SpinnerShown
  /\ code # scheduleAirportCode
  /\ scheduleAirportCode' = code
  /\ fetchSummary(code)
  /\ UNCHANGED <<summary, scheduleFlightNumber, newDepartureTime, optimizationResult>>
  /\ UNCHANGED <<coreVars, apiVars, chatVars, bookingVars, alertVars, dashboardVars,
                 analyticsVars>>

\* the Refresh button, disabled while loading
Refresh ==
  /\ scheduleRequests # <<>>
  /\ Len(scheduleRequests) < MaxFetches
  /\ ~SpinnerShown
  /\ ~scheduleLoading
  /\ fetchSummary(scheduleAirportCode)
  /\ UNCHANGED <<scheduleAirportCode, summary, scheduleFlightNumber, newDepartureTime,
                 optimizationResult>>
  /\ UNCHANGED <<coreVars, apiVars, chatVars, bookingVars, alertVars, dashboardVars,
                 analyticsVars>>

setFlightNumber(text) ==
  /\ scheduleRequests # <<>>
  /\ ~SpinnerShown
  /\ text # scheduleFlightNumber
  /\ scheduleFlightNumber' = text
  /\ UNCHANGED <<scheduleAirportCode, summary, scheduleLoading, error, newDepartureTime,
                 optimizationResult, scheduleRequests>>
  /\ UNCHANGED <<coreVars, apiVars, chatVars, bookingVars, alertVars, dashboardVars,
                 analyticsVars>>

setNewDepartureTime(text) ==
  /\ scheduleRequests # <<>>
  /\ ~SpinnerShown
  /\ text # newDepartureTime
  /\ newDepartureTime' = text
  /\ UNCHANGED <<scheduleAirportCode, summary, scheduleLoading, error, scheduleFlightNumber,
                 optimizationResult, scheduleRequests>>
  /\ UNCHANGED <<coreVars, apiVars, chatVars, bookingVars, alertVars, dashboardVars,
                 analyticsVars>>

\* optimizeFlight up to its await
optimizeFlight ==
  IF scheduleFlightNumber = "" \/ newDepartureTime = ""
  THEN /\ error' = [text |-> "Please provide both flight number and new departure time"]
       /\ UNCHANGED <<scheduleLoading, scheduleRequests>>
  ELSE /\ scheduleLoading' = TRUE
       /\ error' = NullObject
       /\ scheduleRequests' = Append(scheduleRequests,
            [method |-> "optimizeFlightSchedule", argument |-> scheduleFlightNumber,
             outcome |-> InFlight, promise |-> Pending])

\* the Optimize button, disabled while loading or while a field is empty
ClickOptimize ==
  /\ scheduleRequests # <<>>
  /\ Len(scheduleRequests) < MaxFetches
  /\ ~SpinnerShown
  /\ ~(scheduleLoading \/ scheduleFlightNumber = "" \/ newDepartureTime = "")
  /\ optimizeFlight
  /\ UNCHANGED <<scheduleAirportCode, summary, scheduleFlightNumber, newDepartureTime,
                 optimizationResult>>
  /\ UNCHANGED <<coreVars, apiVars, chatVars, bookingVars, alertVars, dashboardVars,
                 analyticsVars>>

\* call n settles and fetchSummary or optimizeFlight runs from its await on:
\* the try block, the catch block for a rejected promise, the finally block
CompleteSchedule(n) ==
  /\ scheduleRequests[n].promise = Pending
  /\ \E outcome \in ScheduleOutcomes(scheduleRequests[n]) :
       LET isSummary == scheduleRequests[n].method = "getScheduleOptimizationSummary"
           promise == IF isSummary THEN getScheduleOptimizationSummary(outcome)
                      ELSE optimizeFlightSchedule(outcome)
       IN /\ scheduleRequests' = [scheduleRequests EXCEPT ![n] =
               [@ EXCEPT !.outcome = outcome, !.promise = promise]]
          /\ IF promise.state = "rejected"
             THEN /\ error' = [text |-> IF isSummary
                                         THEN "Failed to fetch schedule optimization summary"
                                         ELSE "Failed to optimize flight schedule"]
                  /\ UNCHANGED <<summary, optimizationResult>>
             ELSE /\ summary' = IF isSummary THEN promise.value ELSE summary
                  /\ optimizationResult' =
                       IF isSummary THEN optimizationResult ELSE promise.value
                  /\ UNCHANGED error
  /\ scheduleLoading' = FALSE
  /\ UNCHANGED <<scheduleAirportCode, scheduleFlightNumber, newDepartureTime>>
  /\ UNCHANGED <<coreVars, apiVars, chatVars, bookingVars, alertVars, dashboardVars,
                 analyticsVars>>

SelectAirport ==
  \E i \in 1..Len(availableAirports) : setAirportCode(availableAirports[i])

TypeFlightNumber == \E text \in FlightNumbers : setFlightNumber(text)

TypeDepartureTime == \E text \in DepartureTimes : setNewDepartureTime(text)

ScheduleResponse == \E n \in 1..Len(scheduleRequests) : CompleteSchedule(n)

NextSchedule ==
  \/ MountSchedule
  \/ SelectAirport
  \/ Refresh
  \/ TypeFlightNumber
  \/ TypeDepartureTime
  \/ ClickOptimize
  \/ ScheduleResponse

----------------------------------------------------------------------------
(* Analytics (src/app/analytics/page.tsx).  analyticsRequests holds the    *)
(* four calls that fetchAnalyticsData hands to Promise.all, once the       *)
(* effect has run.                                                         *)

AnalyticsMethods ==
  {"getRunwayMetrics", "getFlightStatistics", "getRunwayOptimizationData", "getAlerts"}

AnalyticsIdle ==
  /\ analyticsLoading = TRUE
  /\ analyticsMetrics = <<>>
  /\ analyticsStats = [x \in {} |-> 0]
  /\ runwayAnalytics = [x \in {} |-> 0]
  /\ analyticsAlerts = <<>>
  /\ analyticsRequests = <<>>

\* the effect calls fetchAnalyticsData, which makes the four calls
MountAnalytics ==
  /\ analyticsRequests = <<>>
  /\ analyticsRequests' =
       [method \in AnalyticsMethods |-> [outcome |-> InFlight, promise |-> Pending]]
  /\ UNCHANGED <<analyticsLoading, analyticsMetrics, analyticsStats, runwayAnalytics,
                 analyticsAlerts>>
  /\ UNCHANGED <<coreVars, apiVars, chatVars, bookingVars, alertVars, dashboardVars,
                 scheduleVars>>

\* one of the four calls settles
AnswerAnalytics(method) ==
  /\ method \in DOMAIN analyticsRequests
  /\ analyticsRequests[method].promise = Pending
  /\ \E outcome \in Outcomes(method, PageBody) :
       analyticsRequests' = [analyticsRequests EXCEPT ![method] =
         [outcome |-> outcome, promise |-> apiService(method, outcome, <<>>)]]
  /\ UNCHANGED <<analyticsLoading, analyticsMetrics, analyticsStats, runwayAnalytics,
                 analyticsAlerts>>
  /\ UNCHANGED <<coreVars, apiVars, chatVars, bookingVars, alertVars, dashboardVars,
                 scheduleVars>>

\* Promise.all has settled: all four fulfilled, or one rejected
AnalyticsSettled ==
  /\ analyticsRequests # <<>>
  /\ \/ \A method \in AnalyticsMethods :
          analyticsRequests[method].promise.state = "fulfilled"
     \/ \E method \in AnalyticsMethods :
          analyticsRequests[method].promise.state = "rejected"

\* fetchAnalyticsData from the await on: the four setters when Promise.all
\* is fulfilled, nothing but the log when it rejects, then the finally block
fetchAnalyticsData ==
  /\ analyticsLoading
  /\ AnalyticsSettled
  /\ IF \E method \in AnalyticsMethods :
          analyticsRequests[method].promise.state = "rejected"
     THEN UNCHANGED <<analyticsMetrics, analyticsStats, runwayAnalytics, analyticsAlerts>>
     ELSE /\ analyticsMetrics' = analyticsRequests["getRunwayMetrics"].promise.value
          /\ analyticsStats' = analyticsRequests["getFlightStatistics"].promise.value
          /\ runwayAnalytics' = analyticsRequests["getRunwayOptimizationData"].promise.value
          /\ analyticsAlerts' = analyticsRequests["getAlerts"].promise.value
  /\ analyticsLoading' = FALSE
  /\ UNCHANGED analyticsRequests
  /\ UNCHANGED <<coreVars, apiVars, chatVars, bookingVars, alertVars, dashboardVars,
                 scheduleVars>>

AnalyticsAnswers == \E method \in AnalyticsMethods : AnswerAnalytics(method)

NextAnalytics == MountAnalytics \/ AnalyticsAnswers \/ fetchAnalyticsData

----------------------------------------------------------------------------
(* Inputs.  searchFlights reads the module-level array mockFlights; it is  *)
(* a state variable, loaded with the fixture of mockData.ts or, to cover   *)
(* ties of departure time and more than TopResults matches, with a window  *)
(* of a longer pool of flights that starts with that fixture.              *)

MaxWords == 3
MaxFlights == 11

FlightPool ==
  MockFlights \o
  << Flight("6", "BA107", "British Airways", "LHR", "DXB", "2025-01-16T09:00:00Z"),
     Flight("7", "LH452", "Lufthansa", "FRA", "LAX", "2025-01-16T14:30:00Z"),
     Flight("8", "EK003", "Emirates", "LHR", "DXB", "2025-01-16T09:00:00Z"),
     Flight("9", "AF006", "Air France", "CDG", "JFK", "2025-01-15T23:59:59Z"),
     Flight("10", "AA100", "American Airlines", "JFK", "LHR", "2024-12-31T23:00:00Z"),
     Flight("11", "BA109", "British Airways", "DXB", "JFK", "2025-01-16T09:00:00Z"),
     Flight("12", "KL1001", "KLM", "AMS", "SYD", "2024-02-29T12:00:00Z"),
     Flight("13", "LH900", "Lufthansa", "FRA", "LHR", "2024-03-01T00:00:00Z") >>

FlightCollections ==
  {c \in {SubSeq(FlightPool, i, j) : i \in 1..Len(FlightPool), j \in 0..Len(FlightPool)} :
     Len(c) <= MaxFlights}

\* the example queries of the booking page and of the specification, and
\* inputs for the corners of the patterns
ExampleQueries ==
  {"Find flights to London after 3 PM tomorrow",
   "Show me flights from New York to Paris",
   "British Airways flights to Dubai",
   "Next available flight to Tokyo",
   "british airways flights to Dubai",
   "Emirates from dubai to london",
   "flights from paris to tokyo today",
   "to  at3",
   "yesterday at 10:30am",
   "show me all flights",
   "tokyo 99",
   ""}

QueryWords ==
  <<"to london", "from toronto", "tomorrow", "Emirates", "LUFTHANSA">>

RECURSIVE JoinWords(_)
JoinWords(ws) ==
  IF Len(ws) = 0 THEN ""
  ELSE IF Len(ws) = 1 THEN QueryWords[ws[1]]
  ELSE QueryWords[ws[1]] \o " " \o JoinWords(Tail(ws))

WordQueries ==
  {JoinWords(ws) : ws \in UNION {[1..n -> 1..Len(QueryWords)] : n \in 0..MaxWords}}

\* every component as it is constructed, and no request made
PagesIdle ==
  /\ ApiIdle
  /\ ChatIdle
  /\ BookingIdle
  /\ AlertsIdle
  /\ DashboardIdle
  /\ ScheduleIdle
  /\ AnalyticsIdle

\* no function of nlpService.ts has been called yet
CoreIdle ==
  /\ parsed = <<>>
  /\ results = <<>>
  /\ pc = "init"
  /\ response = ""
  /\ callLog = <<>>

Init ==
  /\ \/ mockFlights = MockFlights /\ query \in ExampleQueries \cup WordQueries
     \/ mockFlights \in FlightCollections /\ query \in ExampleQueries
  /\ message = ""
  /\ CoreIdle
  /\ PagesIdle

\* a call parseNaturalLanguageQuery(q)
ParseQuery(q) ==
  /\ query' = q
  /\ parsed' = parseNaturalLanguageQuery(q)
  /\ pc' = "parsed"
  /\ UNCHANGED <<mockFlights, results, message, response, callLog>>
  /\ UNCHANGED pageVars

\* a call searchFlights(q); callLog keeps what the first call with q returned
SearchFlights(q) ==
  /\ query' = q
  /\ \E effect \in {searchEffect(q)} :
       /\ results' = effect.returned
       /\ mockFlights' = effect.shared
  /\ callLog' = IF q \in DOMAIN callLog THEN callLog ELSE callLog @@ (q :> results')
  /\ pc' = "searched"
  /\ UNCHANGED <<parsed, message, response>>
  /\ UNCHANGED pageVars

\* a call generateChatbotResponse(m)
Respond(m) ==
  /\ message' = m
  /\ response' = generateChatbotResponse(m)
  /\ pc' = "responded"
  /\ UNCHANGED <<mockFlights, query, parsed, results, callLog>>
  /\ UNCHANGED pageVars

Parse == ParseQuery(query)

Search == SearchFlights(query)

Next == Parse \/ Search

Spec == Init /\ [][Next]_vars

(* Calls in any order and number, with arguments that change from call to  *)
(* call, on one shared collection.                                          *)

CallQueries == {"", "to tokyo", "Emirates from dubai to london"}

CallMessages == {"search a flight", "hi"}

CallCollections ==
  {MockFlights, SubSeq(FlightPool, 1, MaxFlights), SubSeq(FlightPool, 6, 8)}

InitCalls ==
  /\ mockFlights \in CallCollections
  /\ query = ""
  /\ message = ""
  /\ CoreIdle
  /\ PagesIdle

CallParse == \E q \in CallQueries : ParseQuery(q)

CallSearch == \E q \in CallQueries : SearchFlights(q)

CallRespond == \E m \in CallMessages : Respond(m)

NextCalls == CallParse \/ CallSearch \/ CallRespond

SpecCalls == InitCalls /\ [][NextCalls]_vars

(* Chat inputs: up to MaxChatWords words of the rules' vocabulary, and     *)
(* sentences in which a keyword is part of a longer word or in capitals.   *)

MaxChatWords == 2

ChatWords ==
  <<"flight", "search", "runway", "delay", "alert", "notification", "gate",
    "terminal", "weather", "hello", "hi", "Thanks">>

RECURSIVE JoinChatWords(_)
JoinChatWords(ws) ==
  IF Len(ws) = 0 THEN ""
  ELSE IF Len(ws) = 1 THEN ChatWords[ws[1]]
  ELSE ChatWords[ws[1]] \o " " \o JoinChatWords(Tail(ws))

ChatInputs ==
  {JoinChatWords(ws) : ws \in UNION {[1..n -> 1..Len(ChatWords)] : n \in 0..MaxChatWords}}
    \cup {"Can you search for a flight?", "SEARCH FLIGHTS and runway delays",
          "Is anything delayed?", "anything else", "WEATHER at the Gate",
          "investigate", "Flight status"}

InitRespond ==
  /\ mockFlights = MockFlights
  /\ query = ""
  /\ message \in ChatInputs
  /\ CoreIdle
  /\ PagesIdle

\* a call generateChatbotResponse(message)
NextRespond == Respond(message)

SpecRespond == InitRespond /\ [][NextRespond]_vars

(* The pages, each from its constructed state.                             *)

InitPages ==
  /\ mockFlights = MockFlights
  /\ query = ""
  /\ message = ""
  /\ CoreIdle
  /\ PagesIdle

SpecFacade == InitPages /\ [][NextFacade]_vars

SpecChat == InitPages /\ [][NextChat]_vars

SpecBooking == InitPages /\ [][NextBooking]_vars

SpecAlerts == InitPages /\ [][NextAlerts]_vars

SpecDashboard == InitPages /\ [][NextDashboard]_vars

SpecSchedule == InitPages /\ [][NextSchedule]_vars

SpecAnalytics == InitPages /\ [][NextAnalytics]_vars

\* every call is answered and the continuation of an answered call runs: the
\* backend is assumed to answer or fail each request, and the event loop
\* runs the continuation of a settled promise
SpecAnalyticsFair == SpecAnalytics /\ WF_vars(NextAnalytics)
----------------------------------------------------------------------------
(* Vocabulary of the properties, stated on the input and output strings    *)
(* without the matching operators of the model.                            *)

RECURSIVE Fold(_)
\* s with every upper-case letter replaced by its lower-case letter
Fold(s) ==
  IF Len(s) = 0 THEN ""
  ELSE Fold(SubSeq(s, 1, Len(s) - 1)) \o
       (LET c == CharAt(s, Len(s)) IN IF c \in UpperSet THEN LowerOf[c] ELSE c)

\* sub is a substring of s
Occurs(s, sub) ==
  \E a \in 0..(Len(s) - Len(sub)) : SubSeq(s, a + 1, a + Len(sub)) = sub

\* position of the first occurrence of sub in s (0: none)
FirstOccurrence(s, sub) ==
  LET at == {a \in 1..(Len(s) - Len(sub) + 1) : SubSeq(s, a, a + Len(sub) - 1) = sub}
  IN IF at = {} THEN 0 ELSE Min(at)

\* the pieces of text between its spaces
Keywords(text) ==
  LET starts == {x \in 1..(Len(text) + 1) : x = 1 \/ CharAt(text, x - 1) = " "}
      ends == {y \in 1..(Len(text) + 1) : y = Len(text) + 1 \/ CharAt(text, y) = " "}
      pieces == {ab \in starts \X ends :
                   /\ ab[1] <= ab[2]
                   /\ \A x \in ab[1]..(ab[2] - 1) : CharAt(text, x) # " "}
  IN {SubSeq(text, ab[1], ab[2] - 1) : ab \in pieces}

\* the city of an airport code, the code itself when the table has none
CityOf(code) ==
  IF \E e \in {Airports[i] : i \in 1..Len(Airports)} : e[1] = code
  THEN (CHOOSE e \in {Airports[i] : i \in 1..Len(Airports)} : e[1] = code)[2]
  ELSE code

\* some keyword of text is in the code or in its city, whatever the case
PlaceMatches(text, code) ==
  \E kw \in Keywords(text) : Occurs(Fold(code), kw) \/ Occurs(Fold(CityOf(code)), kw)

\* flight passes every filter that is present in the parsed query p
Passes(flight, p) ==
  /\ "destination" \in DOMAIN p => PlaceMatches(p.destination, flight.destination)
  /\ "origin" \in DOMAIN p => PlaceMatches(p.origin, flight.origin)
  /\ "airline" \in DOMAIN p => Occurs(Fold(flight.airline), p.airline)

Passing(p) == {i \in 1..Len(mockFlights) : Passes(mockFlights[i], p)}

\* position in mockFlights of a returned flight (ids are distinct)
PositionOf(flight) == CHOOSE i \in 1..Len(mockFlights) : mockFlights[i] = flight

Returned == {PositionOf(results[k]) : k \in 1..Len(results)}

DepartureOf(flight) == getTime(flight.departureTime)

\* flight a is before flight b in the stable ascending order of departure
Precedes(a, b) ==
  \/ DepartureOf(a) < DepartureOf(b)
  \/ DepartureOf(a) = DepartureOf(b) /\ PositionOf(a) < PositionOf(b)

----------------------------------------------------------------------------
\* C1: before the truncation to 10, searchFlights returns exactly the flights
\* that pass every present filter (destination keyword in code or city, origin
\* keyword in code or city, airline substring, all case-insensitive); an
\* absent field excludes no flight.
C1_ReturnsExactlyPassing ==
  pc = "searched" =>
    LET p == parseNaturalLanguageQuery(query)
    IN /\ Returned \subseteq Passing(p)
       /\ Cardinality(Returned) = Len(results)
       /\ Cardinality(Passing(p)) <= TopResults => Returned = Passing(p)
       /\ Cardinality(Passing(p)) > TopResults => Len(results) = TopResults

C1_Witness ==
  /\ pc = "searched"
  /\ {"destination", "origin", "airline"} \subseteq DOMAIN parseNaturalLanguageQuery(query)
  /\ results # <<>>
  /\ \E i \in 1..Len(mockFlights) :
       LET p == parseNaturalLanguageQuery(query)
       IN /\ i \notin Returned
          /\ PlaceMatches(p.destination, mockFlights[i].destination)
          /\ ~PlaceMatches(p.origin, mockFlights[i].origin)

\* C2: the returned sequence is ascending in departure timestamp, and flights
\* with equal timestamps keep their relative order of the input collection.
C2_SortedStable ==
  pc = "searched" =>
    \A i \in 1..Len(results) : \A j \in (i + 1)..Len(results) :
       Precedes(results[i], results[j])

C2_Witness ==
  /\ pc = "searched"
  /\ \E i \in 1..Len(results) : \E j \in (i + 1)..Len(results) :
       DepartureOf(results[i]) = DepartureOf(results[j])
  /\ \E i \in 1..Len(results) : \E j \in (i + 1)..Len(results) :
       PositionOf(results[i]) > PositionOf(results[j])

\* C3: searchFlights returns at most min(10, number of flights) entries: the
\* first 10 of the filtered and sorted flights, all of them when fewer than 10
\* match, and the empty sequence when none matches.
C3_AtMostTenFirst ==
  pc = "searched" =>
    LET p == parseNaturalLanguageQuery(query)
        n == Cardinality(Passing(p))
    IN /\ Len(results) <= TopResults
       /\ Len(results) <= Len(mockFlights)
       /\ Len(results) = IF n < TopResults THEN n ELSE TopResults
       /\ Returned \subseteq Passing(p)
       /\ \A i \in Passing(p) \ Returned : \A k \in 1..Len(results) :
            Precedes(results[k], mockFlights[i])

C3_Witness ==
  /\ pc = "searched"
  /\ Len(results) = TopResults
  /\ Cardinality(Passing(parseNaturalLanguageQuery(query))) > TopResults

----------------------------------------------------------------------------
(* "token <word>": the token at the start of the text or after a space,    *)
(* one or more spaces, and a run of letters ended by a space or the end.   *)

LetterRun(s, g) ==
  LET stop == {i \in g..(Len(s) + 1) : i = Len(s) + 1 \/ CharAt(s, i) \notin LowerSet}
  IN Min(stop) - g

Blanks(s, g) ==
  LET stop == {i \in g..(Len(s) + 1) : i = Len(s) + 1 \/ CharAt(s, i) # " "}
  IN Min(stop) - g

\* where the word after the token at position a starts
WordStart(s, token, a) == a + Len(token) + Blanks(s, a + Len(token))

WordAfter(s, token, a) ==
  SubSeq(s, WordStart(s, token, a),
         WordStart(s, token, a) + LetterRun(s, WordStart(s, token, a)) - 1)

TokenWordPositions(s, token) ==
  {a \in 1..(Len(s) - Len(token) + 1) :
     /\ SubSeq(s, a, a + Len(token) - 1) = token
     /\ a = 1 \/ CharAt(s, a - 1) = " "
     /\ Blanks(s, a + Len(token)) >= 1
     /\ LetterRun(s, WordStart(s, token, a)) >= 1
     /\ LET e == WordStart(s, token, a) + LetterRun(s, WordStart(s, token, a))
        IN e = Len(s) + 1 \/ CharAt(s, e) = " "}

HasTokenWord(s, token) == TokenWordPositions(s, token) # {}

FirstTokenWord(s, token) == WordAfter(s, token, Min(TokenWordPositions(s, token)))

Field(p, f) == IF f \in DOMAIN p THEN <<p[f]>> ELSE <<>>

\* C4: for every input containing "to <word>", the parsed destination is the
\* whole word, lowercased, also for words such as london or boston that
\* contain a reserved terminator.
C4_DestinationIsWord ==
  pc = "parsed" /\ HasTokenWord(Fold(query), "to") =>
    Field(parsed, "destination") = <<FirstTokenWord(Fold(query), "to")>>

\* C5: for every input containing "from <A>" and "to <B>", the parsed origin
\* is A and the parsed destination is B, lowercased, for every A and B.
C5_OriginAndDestinationAreWords ==
  pc = "parsed" /\ HasTokenWord(Fold(query), "from") /\ HasTokenWord(Fold(query), "to") =>
    /\ Field(parsed, "origin") = <<FirstTokenWord(Fold(query), "from")>>
    /\ Field(parsed, "destination") = <<FirstTokenWord(Fold(query), "to")>>

LondonQuery == "Find flights to London after 3 PM tomorrow"

\* C6: parsing "Find flights to London after 3 PM tomorrow" yields destination
\* "london", time "3 pm" and date "tomorrow".
C6_LondonQueryParsed ==
  pc = "parsed" /\ query = LondonQuery =>
    /\ Field(parsed, "destination") = <<"london">>
    /\ Field(parsed, "time") = <<"3 pm">>
    /\ Field(parsed, "date") = <<"tomorrow">>

\* C7: for "Find flights to London after 3 PM tomorrow" over the 5-flight
\* fixture, searchFlights returns exactly the flights whose destination code or
\* city contains "london" (the flights to LHR), ascending by departure time;
\* the time and date fragments restrict nothing.
C7_LondonQueryOverFixture ==
  pc = "searched" /\ query = LondonQuery /\ mockFlights = MockFlights =>
    /\ Returned = {i \in 1..Len(mockFlights) :
                     \/ Occurs(Fold(mockFlights[i].destination), "london")
                     \/ Occurs(Fold(CityOf(mockFlights[i].destination)), "london")}
    /\ Returned = {i \in 1..Len(mockFlights) : mockFlights[i].destination = "LHR"}
    /\ Cardinality(Returned) = Len(results)
    /\ \A i \in 1..Len(results) : \A j \in (i + 1)..Len(results) :
         DepartureOf(results[i]) <= DepartureOf(results[j])

C7_Witness ==
  /\ pc = "searched"
  /\ query = LondonQuery
  /\ mockFlights = MockFlights
  /\ Len(results) = 1
  /\ results[1].flightNumber = "EK101"

DayWords == {"today", "tomorrow", "yesterday"}

\* C8: the parsed date is present exactly when the lowercased input contains
\* one of "on", "today", "tomorrow", "yesterday" (anywhere), it is then such a
\* token, and when the input contains the word today, tomorrow or yesterday
\* the parsed date is that word.
C8_DateIsDayWord ==
  pc = "parsed" =>
    LET s == Fold(query)
        present == {t \in DayWords \cup {"on"} : Occurs(s, t)}
    IN /\ "date" \in DOMAIN parsed <=> present # {}
       /\ "date" \in DOMAIN parsed => parsed.date \in present
       /\ \A w \in DayWords :
            Keywords(s) \cap DayWords = {w} => Field(parsed, "date") = <<w>>

UpperOf == [c \in LowerSet |-> CharAt(UpperChars, IndexIn(c, LowerChars))]

RECURSIVE Capitals(_)
\* s with every lower-case letter replaced by its upper-case letter
Capitals(s) ==
  IF Len(s) = 0 THEN ""
  ELSE Capitals(SubSeq(s, 1, Len(s) - 1)) \o
       (LET c == CharAt(s, Len(s)) IN IF c \in LowerSet THEN UpperOf[c] ELSE c)

RECURSIVE Alternate(_)
\* s with the letters at odd positions upper-case and the others lower-case
Alternate(s) ==
  IF Len(s) = 0 THEN ""
  ELSE Alternate(SubSeq(s, 1, Len(s) - 1)) \o
       (IF Len(s) % 2 = 1 THEN Capitals(CharAt(s, Len(s))) ELSE Fold(CharAt(s, Len(s))))

Recasings(s) == {Fold(s), Capitals(s), Alternate(s)}

AirlineSet ==
  {"british airways", "lufthansa", "american airlines", "emirates", "air france"}

\* C9: every re-casing of the input yields the same parsed airline; it is the
\* name of the closed set that occurs leftmost in the input, whatever the case,
\* and the field is absent when no name of the set occurs.
C9_AirlineFirstMatchAnyCase ==
  pc = "parsed" =>
    LET s == Fold(query)
        present == {n \in AirlineSet : Occurs(s, n)}
    IN /\ "airline" \in DOMAIN parsed <=> present # {}
       /\ "airline" \in DOMAIN parsed =>
            /\ parsed.airline \in present
            /\ \A n \in present :
                 FirstOccurrence(s, parsed.airline) <= FirstOccurrence(s, n)
       /\ \A r \in Recasings(query) :
            Field(parseNaturalLanguageQuery(r), "airline") = Field(parsed, "airline")

C9_Witness ==
  /\ pc = "parsed"
  /\ query # Fold(query)
  /\ query # Capitals(query)
  /\ Cardinality({n \in AirlineSet : Occurs(Fold(query), n)}) >= 2
  /\ "airline" \in DOMAIN parsed
  /\ FirstOccurrence(Fold(query), parsed.airline) > 1

DubaiQuery == "british airways flights to Dubai"

\* C10: "british airways flights to Dubai" parses to airline "british airways"
\* and destination "dubai", and searchFlights returns only flights whose
\* airline contains "british airways" and whose destination code or city
\* contains "dubai", whatever the case.
C10_DubaiQuery ==
  /\ pc = "parsed" /\ query = DubaiQuery =>
       /\ Field(parsed, "airline") = <<"british airways">>
       /\ Field(parsed, "destination") = <<"dubai">>
  /\ pc = "searched" /\ query = DubaiQuery =>
       \A k \in 1..Len(results) :
          /\ Occurs(Fold(results[k].airline), "british airways")
          /\ \/ Occurs(Fold(results[k].destination), "dubai")
             \/ Occurs(Fold(CityOf(results[k].destination)), "dubai")

C10_Witness ==
  /\ pc = "searched"
  /\ query = DubaiQuery
  /\ Field(parsed, "airline") = <<"british airways">>
  /\ Field(parsed, "destination") = <<"dubai">>
  /\ results # <<>>
  /\ \E i \in 1..Len(mockFlights) :
       i \notin Returned /\ Occurs(Fold(mockFlights[i].airline), "british airways")
  /\ \E i \in 1..Len(mockFlights) :
       i \notin Returned /\ Occurs(Fold(CityOf(mockFlights[i].destination)), "dubai")

----------------------------------------------------------------------------
\* the literals one of which every extraction pattern needs in its input
PatternLiterals ==
  {"to", "from", "after", "at", "before", "on", "today", "tomorrow", "yesterday"}
    \cup AirlineSet

\* C11: parseNaturalLanguageQuery and searchFlights raise no error; for the
\* empty string and for every input that matches no extraction pattern all
\* five fields are absent, and searchFlights returns the first 10 flights of
\* the whole collection in ascending order of departure, unfiltered.
C11_NoPatternNoFilter ==
  /\ pc = "parsed" /\ (\A t \in PatternLiterals : ~Occurs(Fold(query), t)) =>
       DOMAIN parsed = {}
  /\ pc = "searched" /\ DOMAIN parseNaturalLanguageQuery(query) = {} =>
       /\ Len(results) = (IF Len(mockFlights) < 10 THEN Len(mockFlights) ELSE 10)
       /\ Cardinality(Returned) = Len(results)
       /\ \A i \in 1..Len(results) : \A j \in 1..Len(mockFlights) :
            \/ \E k \in 1..i : results[k] = mockFlights[j]
            \/ Precedes(results[i], mockFlights[j])

C11_Witness ==
  /\ pc = "searched"
  /\ query # ""
  /\ \A t \in PatternLiterals : ~Occurs(Fold(query), t)
  /\ DOMAIN parsed = {}
  /\ Len(mockFlights) > 10
  /\ Len(results) = 10

\* the queries a search is compared with
ComparedQueries ==
  {"", "tomorrow", "yesterday at 10:30am", "to london", "tomorrow to london",
   "Find flights to London after 3 PM tomorrow"}

SameFilters(p1, p2) ==
  \A f \in {"destination", "origin", "airline"} : Field(p1, f) = Field(p2, f)

\* C12: the parsed time and date never influence matching: two queries with
\* the same parsed destination, origin and airline give the same sequence.
C12_TimeAndDateIgnored ==
  pc = "searched" =>
    \A q2 \in ComparedQueries :
       SameFilters(parseNaturalLanguageQuery(q2), parseNaturalLanguageQuery(query)) =>
         searchFlights(q2) = results

C12_Witness ==
  /\ pc = "searched"
  /\ results # <<>>
  /\ Len(results) < Len(mockFlights)
  /\ \E q2 \in ComparedQueries :
       LET p1 == parseNaturalLanguageQuery(query)
           p2 == parseNaturalLanguageQuery(q2)
       IN /\ SameFilters(p1, p2)
          /\ Field(p1, "time") # Field(p2, "time")
          /\ "date" \in DOMAIN p1

----------------------------------------------------------------------------
(* generateChatbotResponse                                                 *)

\* the keyword condition of rule i on the folded message; rule 7 has none
RuleHolds(i, folded) ==
  CASE i = 1 -> Occurs(folded, "flight") /\ Occurs(folded, "search")
    [] i = 2 -> Occurs(folded, "runway") \/ Occurs(folded, "delay")
    [] i = 3 -> Occurs(folded, "alert") \/ Occurs(folded, "notification")
    [] i = 4 -> Occurs(folded, "gate") \/ Occurs(folded, "terminal")
    [] i = 5 -> Occurs(folded, "weather")
    [] i = 6 -> Occurs(folded, "hello") \/ Occurs(folded, "hi")
    [] OTHER -> TRUE

FirstRule(m) == Min({i \in 1..7 : RuleHolds(i, Fold(m))})

\* a phrase that tells the response text of rule i from the other six
ResponsePhrase ==
  <<"search for flights using natural language",
    "runway optimization dashboard",
    "alerts page for the latest airport notifications",
    "gate and terminal information",
    "Current weather conditions",
    "Hello! I'm your airport assistant",
    "I'm here to help with airport operations">>

\* C13: generateChatbotResponse returns the response text of the first rule,
\* in the order 1..7, whose keywords occur in the message without regard to
\* case, and of no other rule; "Can you search for a flight?" gets the
\* flight-search guidance.
C13_FirstMatchingRule ==
  pc = "responded" =>
    /\ \A i \in 1..7 : Occurs(response, ResponsePhrase[i]) <=> i = FirstRule(message)
    /\ message = "Can you search for a flight?" => response = FlightSearchResponse

\* an input in capitals on which rule 1 and a later rule both match
C13_Witness ==
  /\ pc = "responded"
  /\ message # Fold(message)
  /\ RuleHolds(1, Fold(message))
  /\ \E j \in 2..6 : RuleHolds(j, Fold(message))
  /\ Occurs(response, ResponsePhrase[1])

----------------------------------------------------------------------------
(* Repeated calls on the shared collection                                 *)

\* C14: searchFlights is idempotent: whenever a call with a query returns,
\* its ordered output is the output of the first call with that query on the
\* shared collection, whatever calls came in between.
C14_Idempotent ==
  [][pc' = "searched" /\ query' \in DOMAIN callLog => results' = callLog[query']]_vars

\* a query searched again after a search with another query, with output
C14_Witness ==
  /\ pc = "searched"
  /\ Cardinality(DOMAIN callLog) >= 2
  /\ results # <<>>
  /\ Len(mockFlights) > TopResults
  /\ callLog[query] = results

\* C15: no call of searchFlights, parseNaturalLanguageQuery or
\* generateChatbotResponse changes the shared collection mockFlights: same
\* elements, same order.
C15_MockFlightsUnchanged ==
  [][mockFlights' = mockFlights]_vars

\* searches done on a collection that is not in departure order: a search
\* without filter returned it reordered, and the other functions ran too
C15_Witness ==
  /\ pc = "searched"
  /\ query = ""
  /\ results # <<>>
  /\ results # mockFlights
  /\ Len(results) = Len(mockFlights)
  /\ parsed # <<>>
  /\ response # ""

----------------------------------------------------------------------------
(* The facade on transport failure                                         *)

FailedCall(method) ==
  /\ apiCall.phase = "settled"
  /\ apiCall.method = method
  /\ apiCall.outcome = Rejects \/ apiCall.outcome = NotOk

\* the call has resolved with an empty list or a list of one record
ResolvedWithFallback ==
  /\ apiCall.settlement.state = "fulfilled"
  /\ Len(apiCall.settlement.value) <= 1

----------------------------------------------------------------------------
(* The chat on a failed request                                            *)

FailedChatRequests ==
  {n \in 1..Len(chatRequests) :
     chatRequests[n].outcome = Rejects \/ chatRequests[n].outcome = NotOk}

\* a text that tells the user of a failure: it opens with one of these words
IsErrorText(text) ==
  \E word \in {"Sorry", "Error", "Failed"} :
     Len(text) >= Len(word) /\ SubSeq(text, 1, Len(word)) = word

ErrorMessages == {i \in 1..Len(messages) : IsErrorText(messages[i].content)}

----------------------------------------------------------------------------
(* Overlapping searches on the booking page                                *)

\* C18: when a search was started while an earlier one was pending and all
\* searches have completed, the results shown are those of the search that
\* was started last.
C18_LatestSearchShown ==
  LET last == Len(searchRequests)
  IN /\ last >= 2
     /\ searchRequests[last].overlaps # {}
     /\ PendingSearches = {}
     => bookingResults = searchRequests[last].promise.value

----------------------------------------------------------------------------
(* The alerts page                                                         *)

\* the list with resolved = true on the alerts with that id, else as it was
WithResolved(list, id) ==
  [i \in 1..Len(list) |->
     IF list[i].id = id
     THEN [id |-> list[i].id, type |-> list[i].type, title |-> list[i].title,
           message |-> list[i].message, timestamp |-> list[i].timestamp,
           resolved |-> TRUE]
     ELSE list[i]]

\* C19: a step changes the alert list only if it is a resolveAlert call;
\* resolveAlert(id) sets resolved on the alert with that id and leaves the
\* other fields, the other alerts, their number and order as they were; an
\* unknown or resolved id changes nothing, and no resolved alert becomes
\* unresolved.
C19_OnlyResolveMutates ==
  [][/\ \A id \in AlertIds : resolveAlert(id) => alerts' = WithResolved(alerts, id)
     /\ alerts' # alerts => \E id \in AlertIds : resolveAlert(id)
     /\ Len(alerts') = Len(alerts)
     /\ \A i \in 1..Len(alerts) : alerts[i].resolved => alerts'[i].resolved
     /\ \A id \in AlertIds :
          resolveAlert(id) /\ (\A i \in 1..Len(alerts) : alerts[i].id = id => alerts[i].resolved)
            => alerts' = alerts]_vars

\* an alert was resolved while the list was searched and filtered
C19_Witness ==
  /\ alerts[1].resolved
  /\ ~alerts[2].resolved
  /\ alerts # MockAlerts
  /\ searchTerm # ""
  /\ filterType # "all"
  /\ showResolved

----------------------------------------------------------------------------
(* The Dashboard when the backend fails                                    *)

AllRequestsFailed ==
  /\ dashboardRequests # <<>>
  /\ \A method \in DOMAIN dashboardRequests :
       dashboardRequests[method].outcome = Rejects \/ dashboardRequests[method].outcome = NotOk

\* C20: when the requests of fetchData have failed and fetchData has
\* completed, the Dashboard shows the mock values: 12 active flights, 2
\* critical alerts, 78 % average runway utilization.
C20_FallsBackToMock ==
  AllRequestsFailed /\ ~loading =>
    /\ activeFlights = 12
    /\ criticalAlerts = 2
    /\ avgRunwayUtilization = 78

\* C21: once fetchData has completed, the average runway utilization shown
\* is at most 100, whether it comes from the runway metrics or, with an empty
\* metrics list, from the runway statistics.
C21_UtilizationCapped ==
  ~loading => avgRunwayUtilization <= 100

----------------------------------------------------------------------------
(* The chat: messages, requests and isLoading                              *)

\* the text is empty or consists of whitespace
IsBlank(text) == \A i \in 1..Len(text) : CharAt(text, i) = " "

\* position in messages of the n-th message of the user
NthUserMessage(n) ==
  CHOOSE i \in 1..Len(messages) :
    /\ messages[i].sender = "user"
    /\ Cardinality({j \in 1..i : messages[j].sender = "user"}) = n

\* request n completes in this step
ChatCompletes(n) ==
  chatRequests[n].promise.state = "pending" /\ chatRequests'[n].promise.state # "pending"

\* what the bot says for the outcome of a request
ExpectedReply(outcome) ==
  IF outcome.fetch = "resolves" /\ outcome.ok THEN outcome.body.response
  ELSE "Sorry, I'm having trouble connecting to the server. Please try again later."

\* C22: a handleSendMessage call with non-blank input appends the user
\* message with that input and issues one sendChatMessage request for it;
\* the completion of a request appends one bot message, behind the user
\* message of that request, with the response text on success and the fixed
\* apology on failure; a call with blank input changes nothing; no other step
\* adds a message or a request.
C22_SendAndReply ==
  [][/\ handleSendMessage /\ IsBlank(input) =>
          UNCHANGED <<messages, input, isLoading, chatRequests, now>>
     /\ handleSendMessage /\ ~IsBlank(input) =>
          /\ Len(messages') = Len(messages) + 1
          /\ messages'[Len(messages')].sender = "user"
          /\ messages'[Len(messages')].content = input
          /\ SubSeq(messages', 1, Len(messages)) = messages
          /\ Len(chatRequests') = Len(chatRequests) + 1
          /\ chatRequests'[Len(chatRequests')].message = input
          /\ chatRequests'[Len(chatRequests')].promise.state = "pending"
          /\ SubSeq(chatRequests', 1, Len(chatRequests)) = chatRequests
     /\ \A n \in 1..Len(chatRequests) :
          ChatCompletes(n) =>
            /\ Len(messages') = Len(messages) + 1
            /\ SubSeq(messages', 1, Len(messages)) = messages
            /\ messages'[Len(messages')].sender = "bot"
            /\ messages'[Len(messages')].content = ExpectedReply(chatRequests'[n].outcome)
            /\ NthUserMessage(n) < Len(messages')
            /\ messages[NthUserMessage(n)].content = chatRequests[n].message
            /\ Len(chatRequests') = Len(chatRequests)
     /\ ~handleSendMessage /\ (\A n \in 1..Len(chatRequests) : ~ChatCompletes(n)) =>
          messages' = messages /\ chatRequests' = chatRequests]_vars

\* two messages sent, one answered and one failed, then blank input typed
C22_Witness ==
  /\ Len(chatRequests) = 2
  /\ Len(messages) = 5
  /\ \E n \in 1..2 : chatRequests[n].outcome = NotOk
  /\ \E n \in 1..2 : chatRequests[n].promise.state = "fulfilled"
  /\ input = "  "

\* C23: isLoading is true exactly in the states in which a sendChatMessage
\* request is outstanding.
C23_LoadingIffOutstanding ==
  isLoading <=> \E n \in 1..Len(chatRequests) : chatRequests[n].promise.state = "pending"

\* C28: the ids of the messages in the list are pairwise distinct.
C28_DistinctIds ==
  \A i, j \in 1..Len(messages) : i # j => messages[i].id # messages[j].id

----------------------------------------------------------------------------
(* The example buttons of the booking page                                 *)

\* C25: the handleSearch call scheduled by a click on an example button
\* issues a searchFlightsNLP request whose query is the example clicked.
C25_ExampleIsSearched ==
  [][TimerFires =>
       /\ Len(searchRequests') = Len(searchRequests) + 1
       /\ searchRequests'[Len(searchRequests')].query = Head(searchTimers).example]_vars

AllScheduleRequestsComplete ==
  /\ scheduleRequests # <<>>
  /\ \A n \in 1..Len(scheduleRequests) : scheduleRequests[n].promise # Pending

\* C24: once every getScheduleOptimizationSummary request has completed, in
\* whatever order, a summary that is displayed is the one of the airport
\* that is selected.
C24_SummaryOfSelectedAirport ==
  AllScheduleRequestsComplete /\ summary # NullObject
    => summary.airport_code = scheduleAirportCode

ScheduleCompletes(n) ==
  /\ n \in 1..Len(scheduleRequests)
  /\ scheduleRequests[n].promise = Pending
  /\ scheduleRequests'[n].promise # Pending

\* C26: when a summary request or an optimize-flight request fails (the
\* fetch rejects or the status is not OK), the step that completes it leaves
\* error non-null and loading false.
C26_FailureSetsError ==
  [][\A n \in 1..Len(scheduleRequests) :
       ScheduleCompletes(n) /\ Failed(scheduleRequests'[n].outcome)
         => error' # NullObject /\ ~scheduleLoading']_vars

AnalyticsInitial ==
  /\ analyticsMetrics = <<>>
  /\ analyticsStats = [x \in {} |-> 0]
  /\ runwayAnalytics = [x \in {} |-> 0]
  /\ analyticsAlerts = <<>>

\* C27: when the getRunwayOptimizationData request of the analytics page
\* fails, runwayMetrics, flightStats, runwayAnalytics and alerts keep their
\* initial empty values whatever the other three requests answered; and with
\* every request answered, loading becomes false in the end.
C27_AllOrNothing ==
  /\ [](analyticsRequests # <<>>
          /\ Failed(analyticsRequests["getRunwayOptimizationData"].outcome)
        => AnalyticsInitial)
  /\ <>(~analyticsLoading)

\* the optimization request failed, the other three succeeded with data,
\* and fetchAnalyticsData has finished
C27_Witness ==
  /\ analyticsRequests # <<>>
  /\ analyticsRequests["getRunwayOptimizationData"].outcome = NotOk
  /\ analyticsRequests["getRunwayMetrics"].outcome = Ok(<<BackendMetrics[1]>>)
  /\ analyticsRequests["getFlightStatistics"].outcome =
       Ok([total_flights |-> 120, total_delays |-> 14])
  /\ analyticsRequests["getAlerts"].outcome = Ok(<<BackendAlerts[1]>>)
  /\ ~analyticsLoading
  /\ AnalyticsInitial
====
